---- MODULE Spec2Model ----
(***************************************************************************)
(* State-machine model of MetabaseClient (src/metabase_clickhouse_app.py): *)
(* the fetch strategy selector, the sequential pager and the parallel      *)
(* pager with its per-page worker clients, over a server that holds a      *)
(* stable dataset of `total` rows and answers each request with success    *)
(* or with one of the failures the client code distinguishes.              *)
(*                                                                         *)
(* A table (DataFrame) is kept as the list of the row ranges <<lo, hi>>    *)
(* (rows lo .. hi-1 of the dataset) it holds, in order, adjacent ranges    *)
(* merged: two tables are equal exactly when they hold the same rows in    *)
(* the same order.                                                         *)
(***************************************************************************)
EXTENDS Integers, Sequences, FiniteSets, TLC

-----------------------------------------------------------------------------
(* Bounds of the model *)

\* small datasets hold 0 .. MaxRows rows
MaxRows == 5
\* page size of the direct pager calls on small datasets
SmallPage == 2
\* largest worker pool of the direct parallel calls on small datasets
SmallWorkers == 2
\* server failures injected during one run over a small dataset
MaxFaults == 2
\* server failures injected during one run over a large dataset
MaxFaultsLarge == 1
\* page tasks meet server failures in fetches of at most MaxFaultPages pages
MaxFaultPages == 3
\* a direct pager call is modelled when the dataset fits MaxPages pages
MaxPages == 12

-----------------------------------------------------------------------------
(* Program constants *)

\* execute_query_optimized: total_rows <= 50000 selects "single"
SingleShotLimit == 50000
\* execute_query_optimized: total_rows <= 500000 selects "pagination"
PaginationLimit == 500000
\* execute_query(sql_query, max_results=100000)
SingleCeiling == 100000
\* execute_query_with_pagination(sql_query, page_size=25000)
SeqPageSize == 25000
\* execute_query_with_parallel_pagination(sql_query, page_size=50000, ...)
ParPageSize == 50000
\* execute_query_with_parallel_pagination(..., max_workers=6)
ParWorkers == 6
\* "max-results": max_results or 100000
DefaultMaxResults == 100000
\* execute_query(count_query, max_results=1)
CountCeiling == 1

-----------------------------------------------------------------------------
(* Values *)

\* session_token = None
NoToken == <<>>
\* the session the server opens for the calling client's login
CallerToken == <<"caller">>
\* variant: the page task uses the calling client (self) and its session
SharedToken(page_num) == CallerToken

\* the session the server opens for the login of page page_num's thread_client
WorkerToken(page_num) == <<"page", page_num>>

\* a call that returned None
NoneDf == [kind |-> "None", rows |-> <<>>, n |-> 0]
\* a DataFrame of the given rows
Df(rows) == [kind |-> "df", rows |-> rows, n |-> 0]
\* the one-row DataFrame of a COUNT(*) query, total_rows = n
CountDf(n) == [kind |-> "count", rows |-> <<>>, n |-> n]
\* an exception that left the call
Raised == [kind |-> "raise", rows |-> <<>>, n |-> 0]
\* the call has not returned yet
Pending == [kind |-> "pending", rows |-> <<>>, n |-> 0]

Min(a, b) == IF a <= b THEN a ELSE b

\* rows lo .. hi-1 as a table
RowsOf(lo, hi) == IF lo < hi THEN << <<lo, hi>> >> ELSE <<>>

\* len(df)
RECURSIVE NumRows(_)
NumRows(rows) ==
    IF rows = <<>> THEN 0
    ELSE (Head(rows)[2] - Head(rows)[1]) + NumRows(Tail(rows))

\* the rows of a followed by the rows of b
Concat2(a, b) ==
    IF a = <<>> THEN b
    ELSE IF b = <<>> THEN a
    ELSE IF a[Len(a)][2] = b[1][1]
         THEN SubSeq(a, 1, Len(a) - 1) \o << <<a[Len(a)][1], b[1][2]>> >> \o Tail(b)
         ELSE a \o b

\* pd.concat(frames, ignore_index=True): the rows of the frames, in list order
RECURSIVE PdConcat(_)
PdConcat(frames) ==
    IF frames = <<>> THEN <<>>
    ELSE Concat2(Head(frames).rows, PdConcat(Tail(frames)))

-----------------------------------------------------------------------------
(* The server *)

\* the SQL texts the client sends
CountQuery == [kind |-> "count", limit |-> 0, offset |-> 0]
RawQuery == [kind |-> "raw", limit |-> 0, offset |-> 0]
\* f"{sql_query.rstrip(';')} LIMIT {page_size} OFFSET {offset}"
PageQuery(page_size, offset) == [kind |-> "page", limit |-> page_size, offset |-> offset]

\* "max-results": max_results or 100000 (None is kept as 0)
Constraint(max_results) == IF max_results = 0 THEN DefaultMaxResults ELSE max_results

\* the payload of a completed query over a dataset of tot rows: LIMIT/OFFSET
\* are applied by the database, the max-results constraint caps the rows
ServerResult(q, max_results, tot) ==
    IF q.kind = "count" THEN CountDf(tot)
    ELSE IF q.kind = "raw" THEN Df(RowsOf(0, Min(tot, Constraint(max_results))))
    ELSE LET lo == Min(q.offset, tot)
             hi == Min(q.offset + q.limit, tot)
         IN  Df(RowsOf(lo, Min(hi, lo + Constraint(max_results))))

\* the payload of a completed query when the server leaves the max-results
\* constraint unapplied: every row the SQL text selects
ServerResultUncapped(q, tot) ==
    IF q.kind = "count" THEN CountDf(tot)
    ELSE IF q.kind = "raw" THEN Df(RowsOf(0, tot))
    ELSE Df(RowsOf(Min(q.offset, tot), Min(q.offset + q.limit, tot)))

\* the payload of a completed POST /api/card/{id}/query: the question's rows
CardResult(tot) == Df(RowsOf(0, tot))

\* answers to GET /api/database: the named database is listed, is not
\* listed, the request fails, the payload is not the expected object
DbAnswers == {"found", "notfound", "reqerr", "badjson"}
\* answers to POST /api/dataset: status completed, status not completed,
\* transport or HTTP error
QueryAnswers == {"completed", "failed", "http_error"}
\* status completed with the max-results constraint left unapplied
UncappedAnswer == "uncapped"
\* status completed with no rows: the rows counted are gone when the page is read
EmptyAnswer == "empty"
\* answers to GET /api/card/{id}: a native query with SQL text, a native
\* query with empty text, a query-builder definition, a failed request
CardAnswers == {"native", "native_empty", "structured", "reqerr"}
\* answers to POST /api/session: a session id, a payload without id, an error
AuthAnswers == {"ok", "noid", "fail"}
\* answers to DELETE /api/session
LogoutAnswers == {"ok", "fail"}

\* the number of server failures in a list of answers
RECURSIVE Cost(_)
Cost(answers) ==
    IF answers = <<>> THEN 0
    ELSE (IF Head(answers) \in {"found", "completed", "ok", "skip", "native",
                                "native_empty", "structured"} THEN 0 ELSE 1)
         + Cost(Tail(answers))

-----------------------------------------------------------------------------
(* MetabaseClient.get_database_id and MetabaseClient.execute_query *)

\* variant: the id found earlier is not kept
GetDatabaseIdNoCache(database_id, dbo) ==
    IF dbo = "found" THEN "db"
    ELSE IF dbo = "badjson" THEN "raise"
    ELSE "None"

\* get_database_id: the id kept, or the id found by name, or None; an
\* unexpected payload raises out of the method (only RequestException is caught)
GetDatabaseId(database_id, dbo) ==
    IF database_id # "None" THEN database_id
    ELSE IF dbo = "found" THEN "db"
    ELSE IF dbo = "badjson" THEN "raise"
    ELSE "None"

\* the answers execute_query can meet, as <<database answer, query answer>>;
\* "skip" marks a request that is not sent
ExecChoices(token, database_id) ==
    IF token = NoToken THEN {<<"skip", "skip">>}
    ELSE IF database_id # "None" THEN {<<"skip", qo>> : qo \in QueryAnswers}
    ELSE {<<"found", qo>> : qo \in QueryAnswers}
         \cup {<<dbo, "skip">> : dbo \in DbAnswers \ {"found"}}

\* the answers a query without LIMIT can meet: for a page query the ceiling
\* equals the LIMIT and the uncapped payload is the completed one
RawChoices(token, database_id) ==
    ExecChoices(token, database_id)
    \cup {<<ans[1], UncappedAnswer>> : ans \in {c \in ExecChoices(token, database_id) :
                                                  c[2] = "completed"}}

\* the answers the query of a page task can meet
PageChoices(token, database_id) ==
    ExecChoices(token, database_id)
    \cup {<<ans[1], EmptyAnswer>> : ans \in {c \in ExecChoices(token, database_id) :
                                               c[2] = "completed"}}

\* variant: an HTTP success is taken as a result whatever its status field
ExecuteQueryAnyStatus(token, database_id, q, max_results, ans, tot) ==
    IF token = NoToken
    THEN [df |-> NoneDf, database_id |-> database_id, sent |-> FALSE]
    ELSE LET id == GetDatabaseId(database_id, ans[1]) IN
         IF id = "raise"
         THEN [df |-> Raised, database_id |-> database_id, sent |-> FALSE]
         ELSE IF id = "None"
         THEN [df |-> NoneDf, database_id |-> "None", sent |-> FALSE]
         ELSE IF ans[2] \in {"completed", "failed"}
         THEN [df |-> ServerResult(q, max_results, tot), database_id |-> id, sent |-> TRUE]
         ELSE [df |-> NoneDf, database_id |-> id, sent |-> TRUE]

\* execute_query(q, max_results) on a client holding token and database_id:
\* the value returned (or Raised), the database_id the client holds
\* afterwards, and whether the query was posted
ExecuteQuery(token, database_id, q, max_results, ans, tot) ==
    IF token = NoToken
    THEN [df |-> NoneDf, database_id |-> database_id, sent |-> FALSE]
    ELSE LET id == GetDatabaseId(database_id, ans[1]) IN
         IF id = "raise"
         THEN [df |-> Raised, database_id |-> database_id, sent |-> FALSE]
         ELSE IF id = "None"
         THEN [df |-> NoneDf, database_id |-> "None", sent |-> FALSE]
         ELSE IF ans[2] = "completed"
         THEN [df |-> ServerResult(q, max_results, tot), database_id |-> id, sent |-> TRUE]
         ELSE IF ans[2] = UncappedAnswer
         THEN [df |-> ServerResultUncapped(q, tot), database_id |-> id, sent |-> TRUE]
         ELSE IF ans[2] = EmptyAnswer
         THEN [df |-> Df(<<>>), database_id |-> id, sent |-> TRUE]
         ELSE [df |-> NoneDf, database_id |-> id, sent |-> TRUE]

\* get_question_details: None without a token or when the request fails,
\* otherwise the kind of definition the card holds
GetQuestionDetails(token, a) ==
    IF token = NoToken \/ a = "reqerr" THEN "None" ELSE a

-----------------------------------------------------------------------------
(* State *)

VARIABLES
    total,            \* server: rows of the dataset the SQL text selects
    sessions,         \* server: the sessions that are open (not logged out)
    faultsLeft,       \* server failures that may still be injected
    cfgdb,            \* config.database_id ("None": resolved lazily by name)
    session_token,    \* calling client: self.session_token
    header,           \* calling client: session.headers['X-Metabase-Session']
    database_id,      \* calling client: self.database_id
    pc,               \* position of the calling thread
    entry,            \* the public method the caller invoked
    reqmode,          \* optimization_mode as passed by the caller
    mode,             \* optimization_mode, the local variable
    estStatus,        \* outcome of the estimation query: "-", "ok", "none", "raised"
    estimate,         \* total_rows of the estimation query
    invoked,          \* the fetch engines invoked by this call, in order
    page_size,        \* page_size of the running pager
    max_workers,      \* max_workers of the running parallel pager
    offset,           \* sequential pager: offset
    all_dataframes,   \* the pagers' all_dataframes list
    total_pages,      \* parallel pager: total_pages
    successful_pages, \* parallel pager: successful_pages
    task,             \* parallel pager: the page tasks submitted to the pool
    reordered,        \* parallel pager: some page finished before a lower page
    seqlog,           \* sequential pager: the page queries made, with their outcome
    ret,              \* the value returned to the caller
    authResult,       \* what the session call just made did: "-", "ok", "noid",
                      \* "fail" (authenticate returned False), "logout",
                      \* "logout_noop" (logout without a token)
    qcall,            \* the execute_query call just made: answers, ceiling, request
    meta,             \* saved question: what get_question_details returned
    savedCalls,       \* saved question: calls of execute_saved_question
    cardReq,          \* saved question: the /api/card requests sent by this call
    countStatus,      \* parallel pager: outcome of its count query, as estStatus
    use_pagination,   \* execute_query_from_warehouse: use_pagination, "-" when not called
    da                \* data-access call: its position, its path, the logouts it made

vars == <<total, sessions, faultsLeft, cfgdb, session_token, header, database_id,
          pc, entry, reqmode, mode, estStatus, estimate, invoked, page_size,
          max_workers, offset, all_dataframes, total_pages, successful_pages,
          task, reordered, seqlog, ret, authResult, qcall, meta, savedCalls,
          cardReq, countStatus, use_pagination, da>>

serverVars == <<total, cfgdb>>
clientVars == <<session_token, header, database_id>>
selectorVars == <<entry, reqmode, mode, estStatus, estimate>>
seqVars == <<offset, seqlog>>
parVars == <<total_pages, successful_pages, task, reordered, countStatus>>
savedVars == <<meta, savedCalls, cardReq>>
accessVars == <<use_pagination, da>>

\* no data-access call is running
NoAccess == [fn |-> "-", st |-> "-", path |-> "-", logouts |-> 0]

\* no execute_query call made
NoCall == [ans |-> <<"skip", "skip">>, max_results |-> 0, sent |-> FALSE,
           presented |-> NoToken]

\* the datasets at the selector's thresholds
LargeTotals == {SingleShotLimit, SingleShotLimit + 1, PaginationLimit,
                PaginationLimit + 1}
SmallTotals == 0 .. MaxRows

Modes == {"auto", "single", "pagination", "parallel", "turbo"}

\* the state after MetabaseClient(config), before any call
InitWith(totals, dbs, budget) ==
    /\ total \in totals
    /\ cfgdb \in dbs
    /\ sessions = {}
    /\ faultsLeft = budget
    /\ session_token = NoToken
    /\ header = NoToken
    /\ database_id = cfgdb
    /\ pc = "idle"
    /\ entry = "-"
    /\ reqmode = "-"
    /\ mode = "-"
    /\ estStatus = "-"
    /\ estimate = 0
    /\ invoked = <<>>
    /\ page_size = 0
    /\ max_workers = 0
    /\ offset = 0
    /\ all_dataframes = <<>>
    /\ total_pages = 0
    /\ successful_pages = 0
    /\ task = <<>>
    /\ reordered = FALSE
    /\ seqlog = <<>>
    /\ ret = Pending
    /\ authResult = "-"
    /\ qcall = NoCall
    /\ meta = "-"
    /\ savedCalls = 0
    /\ cardReq = {}
    /\ countStatus = "-"
    /\ use_pagination = "-"
    /\ da = NoAccess

Init == InitWith(SmallTotals, {"None", "db"}, MaxFaults)

\* the datasets at the selector's thresholds, database id configured
InitLarge == InitWith(LargeTotals, {"db"}, MaxFaultsLarge)

\* the engine the call is running
Engine == IF invoked = <<>> THEN "-" ELSE invoked[Len(invoked)].fn

Invocation(fn, p, w, m) == [fn |-> fn, page_size |-> p, max_workers |-> w, max_results |-> m]

-----------------------------------------------------------------------------
(* MetabaseClient.authenticate and MetabaseClient.logout, calling client *)

\* variant: the token is stored but the session header is left as it was
AuthEffectNoHeader(a, token, hdr) ==
    IF a = "ok" THEN [session_token |-> CallerToken, header |-> hdr]
    ELSE IF a = "noid" THEN [session_token |-> NoToken, header |-> hdr]
    ELSE [session_token |-> token, header |-> hdr]

\* the token and the session header after authenticate: the id of the
\* payload (None when it has none) on success, both as before on failure
AuthEffect(a, token, hdr) ==
    IF a = "ok" THEN [session_token |-> CallerToken, header |-> CallerToken]
    ELSE IF a = "noid" THEN [session_token |-> NoToken, header |-> NoToken]
    ELSE [session_token |-> token, header |-> hdr]

Authenticate ==
    /\ pc = "idle"
    /\ \E a \in AuthAnswers :
        /\ Cost(<<a>>) <= faultsLeft
        /\ faultsLeft' = faultsLeft - Cost(<<a>>)
        /\ session_token' = AuthEffect(a, session_token, header).session_token
        /\ header' = AuthEffect(a, session_token, header).header
        /\ sessions' = IF a = "ok" THEN sessions \cup {CallerToken} ELSE sessions
        /\ authResult' = a
    /\ UNCHANGED <<serverVars, database_id, pc, selectorVars, invoked, page_size,
                   max_workers, seqVars, all_dataframes, parVars, ret>>
    /\ UNCHANGED <<qcall, savedVars, accessVars>>

\* variant: the token is cleared only when the DELETE succeeded
LogoutEffectOnSuccess(a, token, hdr) ==
    IF a = "ok" THEN [session_token |-> NoToken, header |-> NoToken]
    ELSE [session_token |-> token, header |-> hdr]

\* the token and the session header after logout: nothing is done without a
\* token; with one, the finally block clears both whatever the DELETE did
LogoutEffect(a, token, hdr) ==
    IF token = NoToken THEN [session_token |-> token, header |-> hdr]
    ELSE [session_token |-> NoToken, header |-> NoToken]

\* the answers the DELETE of logout can meet; "skip": no request is sent
LogoutChoices(token) == IF token = NoToken THEN {"skip"} ELSE LogoutAnswers

Logout ==
    /\ pc = "idle"
    /\ \E a \in LogoutChoices(session_token) :
        /\ Cost(<<a>>) <= faultsLeft
        /\ faultsLeft' = faultsLeft - Cost(<<a>>)
        /\ sessions' = IF a = "ok" THEN sessions \ {session_token} ELSE sessions
        /\ session_token' = LogoutEffect(a, session_token, header).session_token
        /\ header' = LogoutEffect(a, session_token, header).header
        /\ authResult' = IF a = "skip" THEN "logout_noop" ELSE "logout"
    /\ UNCHANGED <<serverVars, database_id, pc, selectorVars, invoked, page_size,
                   max_workers, seqVars, all_dataframes, parVars, ret>>
    /\ UNCHANGED <<qcall, savedVars, accessVars>>

-----------------------------------------------------------------------------
(* MetabaseClient.execute_query_optimized *)

\* variant: the thresholds compared with < instead of <=
SelectModeStrict(total_rows) ==
    IF total_rows < SingleShotLimit THEN "single"
    ELSE IF total_rows < PaginationLimit THEN "pagination"
    ELSE "parallel"

\* the three-way threshold of the "auto" mode
SelectMode(total_rows) ==
    IF total_rows <= SingleShotLimit THEN "single"
    ELSE IF total_rows <= PaginationLimit THEN "pagination"
    ELSE "parallel"

\* variant: a failed estimate treated as a small result
FallbackSingle == "single"

\* "Could not estimate size, using parallel mode"
FallbackMode == "parallel"

\* the engine call made for an optimization_mode
Dispatch(m) ==
    IF m = "single" THEN Invocation("execute_query", 0, 0, SingleCeiling)
    ELSE IF m = "pagination" THEN Invocation("pagination", SeqPageSize, 0, 0)
    ELSE Invocation("parallel", ParPageSize, ParWorkers, 0)

\* the position at which an engine call starts
EnginePc(fn) ==
    IF fn = "execute_query" THEN "single"
    ELSE IF fn = "pagination" THEN "seq"
    ELSE "par_count"

\* the caller enters an engine
Enter(inv) ==
    /\ invoked' = Append(invoked, inv)
    /\ pc' = EnginePc(inv.fn)
    /\ page_size' = inv.page_size
    /\ max_workers' = inv.max_workers
    /\ offset' = 0
    /\ all_dataframes' = <<>>
    /\ seqlog' = <<>>
    /\ UNCHANGED parVars

\* a call of execute_query_optimized(sql_query, m)
CallOptimized ==
    /\ pc = "idle"
    /\ \E m \in Modes :
        /\ entry' = "optimized"
        /\ reqmode' = m
        /\ mode' = m
        /\ pc' = IF m = "auto" THEN "estimate" ELSE "dispatch"
    /\ UNCHANGED <<serverVars, sessions, faultsLeft, clientVars, estStatus, estimate,
                   invoked, page_size, max_workers, seqVars, all_dataframes,
                   parVars, ret>>
    /\ authResult' = "-"
    /\ UNCHANGED <<qcall, savedVars, accessVars>>

\* the estimation query and the choice of the mode
Estimate ==
    /\ pc = "estimate"
    /\ \E ans \in ExecChoices(session_token, database_id) :
        LET r == ExecuteQuery(session_token, database_id, CountQuery, CountCeiling, ans, total) IN
        /\ Cost(ans) <= faultsLeft
        /\ faultsLeft' = faultsLeft - Cost(ans)
        /\ database_id' = r.database_id
        /\ IF r.df = Raised
           THEN /\ estStatus' = "raised"
                /\ ret' = Raised
                /\ pc' = "done"
                /\ UNCHANGED <<mode, estimate>>
           ELSE IF r.df = NoneDf
           THEN /\ estStatus' = "none"
                /\ mode' = FallbackMode
                /\ pc' = "dispatch"
                /\ UNCHANGED <<ret, estimate>>
           ELSE /\ estStatus' = "ok"
                /\ estimate' = r.df.n
                /\ mode' = SelectMode(r.df.n)
                /\ pc' = "dispatch"
                /\ UNCHANGED ret
    /\ UNCHANGED <<serverVars, sessions, session_token, header, entry, reqmode,
                   invoked, page_size, max_workers, seqVars, all_dataframes, parVars>>
    /\ UNCHANGED <<authResult, qcall, savedVars, accessVars>>

\* "Execute based on optimization mode"
Execute ==
    /\ pc = "dispatch"
    /\ Enter(Dispatch(mode))
    /\ UNCHANGED <<serverVars, sessions, faultsLeft, clientVars, selectorVars, ret>>
    /\ UNCHANGED <<authResult, qcall, savedVars, accessVars>>

\* the ceilings of the direct execute_query calls; 0 is None
Ceilings == {0, SmallPage}

\* a direct call execute_query(sql_query, max_results=m)
CallQuery ==
    /\ pc = "idle"
    /\ \E m \in Ceilings, ans \in RawChoices(session_token, database_id) :
        LET r == ExecuteQuery(session_token, database_id, RawQuery, m, ans, total) IN
        /\ Cost(ans) <= faultsLeft
        /\ faultsLeft' = faultsLeft - Cost(ans)
        /\ database_id' = r.database_id
        /\ ret' = r.df
        /\ qcall' = [ans |-> ans, max_results |-> m, sent |-> r.sent,
                     presented |-> IF r.sent THEN header ELSE NoToken]
    /\ entry' = "execute_query"
    /\ authResult' = "-"
    /\ pc' = "done"
    /\ UNCHANGED <<serverVars, sessions, session_token, header, reqmode, mode,
                   estStatus, estimate, invoked, page_size, max_workers, seqVars,
                   all_dataframes, parVars, savedVars, accessVars>>

\* the single-shot fetch: execute_query(sql_query, max_results=100000)
Single ==
    /\ pc = "single"
    /\ \E ans \in RawChoices(session_token, database_id) :
        LET inv == invoked[Len(invoked)]
            r == ExecuteQuery(session_token, database_id, RawQuery, inv.max_results, ans, total) IN
        /\ Cost(ans) <= faultsLeft
        /\ faultsLeft' = faultsLeft - Cost(ans)
        /\ database_id' = r.database_id
        /\ ret' = r.df
        /\ qcall' = [ans |-> ans, max_results |-> inv.max_results, sent |-> r.sent,
                     presented |-> IF r.sent THEN header ELSE NoToken]
    /\ pc' = "done"
    /\ UNCHANGED <<serverVars, sessions, session_token, header, selectorVars, invoked,
                   page_size, max_workers, seqVars, all_dataframes, parVars>>
    /\ UNCHANGED <<authResult, savedVars, accessVars>>

-----------------------------------------------------------------------------
(* MetabaseClient.execute_query_with_pagination *)

\* page sizes of the direct pager calls
PageSizes == {SmallPage, SeqPageSize, ParPageSize}

\* a direct call execute_query_with_pagination(sql_query, page_size=p)
CallPagination ==
    /\ pc = "idle"
    /\ \E p \in PageSizes :
        /\ total <= MaxPages * p
        /\ Enter(Invocation("pagination", p, 0, 0))
    /\ entry' = "pagination"
    /\ UNCHANGED <<serverVars, sessions, faultsLeft, clientVars, reqmode, mode,
                   estStatus, estimate, ret>>
    /\ authResult' = "-"
    /\ UNCHANGED <<qcall, savedVars, accessVars>>

\* variant: the loop ends on None or on an empty page only
SeqStopsOnEmpty(df, p) ==
    \/ df.kind # "df"
    \/ NumRows(df.rows) = 0

\* variant: a failed page does not end the loop
SeqStopsOnShort(df, p) ==
    /\ df.kind = "df"
    /\ NumRows(df.rows) < p

\* "if df is None or len(df) == 0: break" and "if len(df) < page_size: break"
SeqStops(df, p) ==
    \/ df.kind # "df"
    \/ NumRows(df.rows) = 0
    \/ NumRows(df.rows) < p

\* variant: the page is put in front of the pages fetched before it
SeqAppendFront(frames, df) ==
    IF df.kind # "df" \/ NumRows(df.rows) = 0 THEN frames ELSE <<df>> \o frames

\* the page is appended unless it is None or empty
SeqAppend(frames, df) ==
    IF df.kind # "df" \/ NumRows(df.rows) = 0 THEN frames ELSE Append(frames, df)

\* the value returned after the loop
SeqReturn(frames) ==
    IF frames = <<>> THEN NoneDf ELSE Df(PdConcat(frames))

\* one iteration of the while loop; the iteration that breaks also returns
SeqStep ==
    /\ pc = "seq"
    /\ \E ans \in ExecChoices(session_token, database_id) :
        LET q == PageQuery(page_size, offset)
            r == ExecuteQuery(session_token, database_id, q, page_size, ans, total)
            frames == SeqAppend(all_dataframes, r.df) IN
        /\ Cost(ans) <= faultsLeft
        /\ faultsLeft' = faultsLeft - Cost(ans)
        /\ database_id' = r.database_id
        /\ seqlog' = Append(seqlog, [offset |-> q.offset, limit |-> q.limit,
                                     sent |-> r.sent, kind |-> r.df.kind,
                                     len |-> NumRows(r.df.rows)])
        /\ IF r.df = Raised
           THEN /\ ret' = Raised
                /\ pc' = "done"
                /\ UNCHANGED <<all_dataframes, offset>>
           ELSE /\ all_dataframes' = frames
                /\ IF SeqStops(r.df, page_size)
                   THEN /\ ret' = SeqReturn(frames)
                        /\ pc' = "done"
                        /\ UNCHANGED offset
                   ELSE /\ offset' = offset + page_size
                        /\ UNCHANGED <<ret, pc>>
    /\ UNCHANGED <<serverVars, sessions, session_token, header, selectorVars, invoked,
                   page_size, max_workers, parVars>>
    /\ UNCHANGED <<authResult, qcall, savedVars, accessVars>>

-----------------------------------------------------------------------------
(* MetabaseClient.execute_query_with_parallel_pagination *)

\* worker pools of the direct parallel calls
WorkerCounts == 1 .. SmallWorkers

\* a direct call execute_query_with_parallel_pagination(sql_query, p, w)
CallParallel ==
    /\ pc = "idle"
    /\ \E p \in PageSizes, w \in WorkerCounts :
        /\ total <= MaxPages * p
        /\ Enter(Invocation("parallel", p, w, 0))
    /\ entry' = "parallel"
    /\ UNCHANGED <<serverVars, sessions, faultsLeft, clientVars, reqmode, mode,
                   estStatus, estimate, ret>>
    /\ authResult' = "-"
    /\ UNCHANGED <<qcall, savedVars, accessVars>>

\* variant: total_rows // page_size, the last short page forgotten
TotalPagesFloor(total_rows, p) == total_rows \div p

\* total_pages = (total_rows + page_size - 1) // page_size
TotalPages(total_rows, p) == (total_rows + p - 1) \div p

\* a page task as submitted: executor.submit(fetch_page, page_num)
Submitted(page_num) ==
    [page_num |-> page_num, st |-> "queued", token |-> NoToken, authed |-> FALSE,
     loggedout |-> FALSE, sent |-> 0, used |-> NoToken, limit |-> 0, offset |-> 0,
     res |-> Pending, stored |-> 0, empty |-> FALSE]

\* variant: a count that gave no result is taken as a count of 0
CountFailedOnRaise(count_df) == count_df = Raised

\* "if count_df is None: return None"; an exception leaves the call as well
CountFailed(count_df) == count_df.kind # "count"

\* the count query, total_pages, and the submission of all page tasks
ParCount ==
    /\ pc = "par_count"
    /\ \E ans \in ExecChoices(session_token, database_id) :
        LET r == ExecuteQuery(session_token, database_id, CountQuery, CountCeiling, ans, total)
            pages == TotalPages(r.df.n, page_size) IN
        /\ Cost(ans) <= faultsLeft
        /\ faultsLeft' = faultsLeft - Cost(ans)
        /\ database_id' = r.database_id
        /\ countStatus' = IF r.df = Raised THEN "raised"
                          ELSE IF r.df = NoneDf THEN "none" ELSE "ok"
        /\ IF CountFailed(r.df)
           THEN /\ ret' = r.df
                /\ pc' = "done"
                /\ UNCHANGED <<total_pages, successful_pages, task, reordered,
                               all_dataframes>>
           ELSE IF r.df.n = 0
           THEN /\ ret' = Df(<<>>)
                /\ pc' = "done"
                /\ total_pages' = pages
                /\ UNCHANGED <<successful_pages, task, reordered, all_dataframes>>
           ELSE /\ total_pages' = pages
                /\ all_dataframes' = [i \in 1 .. pages |-> NoneDf]
                /\ successful_pages' = 0
                /\ task' = [i \in 1 .. pages |-> Submitted(i - 1)]
                /\ reordered' = FALSE
                /\ pc' = "par_run"
                /\ UNCHANGED ret
    /\ UNCHANGED <<serverVars, sessions, session_token, header, selectorVars, invoked,
                   page_size, max_workers, seqVars>>
    /\ UNCHANGED <<authResult, qcall, savedVars, accessVars>>

\* the server failures the page tasks of this fetch may still meet
TaskFaults == IF total_pages <= MaxFaultPages THEN faultsLeft ELSE 0

\* the page tasks a pool thread is running
Running == {i \in 1 .. Len(task) : task[i].st = "running"}

\* "if df is not None and len(df) > 0: return df, page_num" else None
PageResult(df) ==
    IF df.kind = "df" /\ NumRows(df.rows) > 0 THEN df ELSE NoneDf

\* variant: the result stored at the next free place, in completion order
StoreResultAppend(frames, page_num, df, successful) ==
    [frames EXCEPT ![successful + 1] = df]

\* all_dataframes[page_num] = df
StoreResult(frames, page_num, df, successful) ==
    [frames EXCEPT ![page_num + 1] = df]

\* the body of the as_completed loop for the finished future of page_num:
\* the futures are handed over in completion order, and this loop is the
\* only writer of all_dataframes and successful_pages
Collect(t, df) ==
    /\ reordered' = (reordered \/ \E j \in 1 .. t.page_num : task[j].st # "done")
    /\ IF df.kind = "df"
       THEN /\ all_dataframes' = StoreResult(all_dataframes, t.page_num, df, successful_pages)
            /\ successful_pages' = successful_pages + 1
            /\ task' = [task EXCEPT ![t.page_num + 1] = [t EXCEPT !.stored = @ + 1]]
       ELSE /\ task' = [task EXCEPT ![t.page_num + 1] = t]
            /\ UNCHANGED <<all_dataframes, successful_pages>>

\* a pool thread takes the next queued task (FIFO) and runs fetch_page up to
\* the end of thread_client.authenticate(); a task whose client holds no
\* token afterwards ends here (execute_query and logout send nothing)
\* variant: the pool takes one task more than it has workers
WorkerFreeOffByOne(running, workers) == Cardinality(running) <= workers

\* ThreadPoolExecutor(max_workers): a queued task starts when a worker is free
WorkerFree(running, workers) == Cardinality(running) < workers

TaskStart ==
    /\ pc = "par_run"
    /\ WorkerFree(Running, max_workers)
    /\ \E i \in 1 .. Len(task) :
        /\ task[i].st = "queued"
        /\ \A j \in 1 .. (i - 1) : task[j].st # "queued"
        /\ \E a \in AuthAnswers :
            /\ Cost(<<a>>) <= TaskFaults
            /\ faultsLeft' = faultsLeft - Cost(<<a>>)
            /\ IF a = "ok"
               THEN /\ task' = [task EXCEPT ![i] =
                                  [@ EXCEPT !.st = "running", !.authed = TRUE,
                                            !.token = WorkerToken(task[i].page_num)]]
                    /\ sessions' = sessions \cup {WorkerToken(task[i].page_num)}
                    /\ UNCHANGED <<all_dataframes, successful_pages, reordered>>
               ELSE /\ Collect([task[i] EXCEPT !.st = "done", !.res = NoneDf], NoneDf)
                    /\ UNCHANGED sessions
    /\ UNCHANGED <<serverVars, clientVars, pc, selectorVars, invoked, page_size,
                   max_workers, seqVars, total_pages, countStatus, ret>>
    /\ UNCHANGED <<authResult, qcall, savedVars, accessVars>>

\* the rest of fetch_page for a running task: the page query, the logout
\* (skipped when the query raised), the value returned; then the loop body
TaskFinish ==
    /\ pc = "par_run"
    /\ \E i \in Running :
        \E ans \in PageChoices(task[i].token, cfgdb), lo \in LogoutAnswers :
        LET t == task[i]
            off == t.page_num * page_size
            q == PageQuery(page_size, off)
            r == ExecuteQuery(t.token, cfgdb, q, page_size, ans, total)
            raised == r.df = Raised
            res == PageResult(r.df)
            cost == Cost(ans) + (IF raised THEN 0 ELSE Cost(<<lo>>)) IN
        /\ raised => lo = "ok"
        /\ cost <= TaskFaults
        /\ faultsLeft' = faultsLeft - cost
        /\ sessions' = IF ~raised /\ lo = "ok" THEN sessions \ {t.token} ELSE sessions
        /\ Collect([t EXCEPT !.st = "done", !.res = res, !.loggedout = ~raised,
                             !.sent = IF r.sent THEN @ + 1 ELSE @,
                             !.used = IF r.sent THEN t.token ELSE @,
                             !.limit = q.limit, !.offset = q.offset,
                             !.empty = (r.df = Df(<<>>))], res)
    /\ UNCHANGED <<serverVars, clientVars, pc, selectorVars, invoked, page_size,
                   max_workers, seqVars, total_pages, countStatus, ret>>
    /\ UNCHANGED <<authResult, qcall, savedVars, accessVars>>

\* valid_dataframes = [df for df in all_dataframes if df is not None]
ValidDataframes(frames) == SelectSeq(frames, LAMBDA f : f.kind = "df")

\* variant: a hole makes the whole fetch fail
ParReturnAllOrNothing(frames) ==
    IF \E i \in 1 .. Len(frames) : frames[i].kind # "df" THEN NoneDf
    ELSE Df(PdConcat(frames))

\* variant: no page retrieved gives a table without rows
ParReturnEmptyTable(frames) ==
    IF ValidDataframes(frames) = <<>> THEN Df(<<>>)
    ELSE Df(PdConcat(ValidDataframes(frames)))

\* the value returned once the pool has shut down
ParReturn(frames) ==
    IF ValidDataframes(frames) = <<>> THEN NoneDf
    ELSE Df(PdConcat(ValidDataframes(frames)))

\* variant: the loop over the futures ends at the first failed page
CompletedOrFailed(tasks) ==
    \/ \A i \in 1 .. Len(tasks) : tasks[i].st = "done"
    \/ \E i \in 1 .. Len(tasks) : tasks[i].st = "done" /\ tasks[i].res.kind # "df"

\* as_completed(future_to_page) has yielded every future
AllCompleted(tasks) == \A i \in 1 .. Len(tasks) : tasks[i].st = "done"

\* every future is done: the executor is left, the table is assembled
ParFinish ==
    /\ pc = "par_run"
    /\ AllCompleted(task)
    /\ ret' = ParReturn(all_dataframes)
    /\ pc' = "done"
    /\ UNCHANGED <<serverVars, sessions, faultsLeft, clientVars, selectorVars, invoked,
                   page_size, max_workers, seqVars, all_dataframes, parVars>>
    /\ UNCHANGED <<authResult, qcall, savedVars, accessVars>>

-----------------------------------------------------------------------------
(* VendorDataExtractor.execute_query_from_warehouse *)

\* a call can start: the caller is idle, or it is inside the data-access
\* function fn, whose client has authenticated
MayCall(fn) == pc = "idle" \/ (pc = "da" /\ da.st = "call" /\ da.fn = fn)

\* the data-access function, if one is running, has made its call
DaEnter == IF pc = "da" THEN [da EXCEPT !.st = "run"] ELSE da

\* the values of optimization_mode the docstring names
WarehouseModes == {"auto", "single", "pagination", "parallel", "fast"}

\* the method of the client that execute_query_from_warehouse calls
WarehouseCall(m, paged) ==
    IF m = "fast" \/ m = "parallel" THEN "parallel"
    ELSE IF m = "auto" THEN "optimized"
    ELSE IF paged THEN "pagination"
    ELSE "execute_query"

\* a call execute_query_from_warehouse(query_func, paged, m), up to the call
\* it delegates to; the datasets are those the sequential pager reads in
\* MaxPages pages
CallWarehouse ==
    /\ MayCall("_execute_query")
    /\ total <= MaxPages * SeqPageSize
    /\ \E m \in WarehouseModes, paged \in BOOLEAN :
        LET fn == WarehouseCall(m, paged) IN
        /\ reqmode' = m
        /\ use_pagination' = IF paged THEN "True" ELSE "False"
        /\ IF fn = "optimized"
           THEN /\ mode' = "auto"
                /\ pc' = "estimate"
                /\ UNCHANGED <<invoked, page_size, max_workers, seqVars,
                               all_dataframes, parVars>>
           ELSE /\ Enter(IF fn = "parallel"
                         THEN Invocation("parallel", ParPageSize, ParWorkers, 0)
                         ELSE IF fn = "pagination"
                         THEN Invocation("pagination", SeqPageSize, 0, 0)
                         ELSE Invocation("execute_query", 0, 0, SingleCeiling))
                /\ UNCHANGED mode
    /\ entry' = "warehouse"
    /\ authResult' = "-"
    /\ da' = DaEnter
    /\ UNCHANGED <<serverVars, sessions, faultsLeft, clientVars, estStatus, estimate,
                   ret, qcall, savedVars>>

-----------------------------------------------------------------------------
(* MetabaseClient.execute_saved_question_optimized *)

\* variant: every native definition goes to the selector, its text unchecked
RouteAnyNative(details) ==
    IF details \in {"native", "native_empty"} THEN "selector" ELSE "direct"

\* "if question_details and ... == 'native'" and "if sql_query"
Route(details) == IF details = "native" THEN "selector" ELSE "direct"

\* variant: the request is sent whether or not a token is held
CardChoicesAlways(token, answers) == answers

\* the requests to /api/card a client holding token can meet; "skip" marks a
\* request that is not sent
CardChoices(token, answers) == IF token = NoToken THEN {"skip"} ELSE answers

\* variant: the selector is always asked to choose by itself
PassedAuto(optimization_mode) == "auto"

\* "return self.execute_query_optimized(sql_query, optimization_mode)"
PassedMode(optimization_mode) == optimization_mode

\* a call execute_saved_question_optimized(question_id, m), up to the call it
\* delegates to; apart from the single-shot mode the datasets are those the
\* sequential pager reads in MaxPages pages
CallSavedOptimized ==
    /\ MayCall("get_question_data")
    /\ \E m \in Modes, a \in CardChoices(session_token, CardAnswers) :
        LET details == GetQuestionDetails(session_token, a) IN
        /\ pc = "da" => m = "auto"
        /\ Cost(<<a>>) <= faultsLeft
        /\ faultsLeft' = faultsLeft - Cost(<<a>>)
        /\ (m = "single" \/ total <= MaxPages * SeqPageSize)
        /\ meta' = details
        /\ cardReq' = IF a = "skip" THEN cardReq ELSE cardReq \cup {"card"}
        /\ IF Route(details) = "selector"
           THEN /\ reqmode' = m
                /\ mode' = PassedMode(m)
                /\ pc' = IF PassedMode(m) = "auto" THEN "estimate" ELSE "dispatch"
           ELSE /\ pc' = "saved_exec"
                /\ UNCHANGED <<reqmode, mode>>
    /\ entry' = "saved_optimized"
    /\ authResult' = "-"
    /\ da' = DaEnter
    /\ UNCHANGED <<serverVars, sessions, clientVars, estStatus, estimate, invoked,
                   page_size, max_workers, seqVars, all_dataframes, parVars, ret,
                   qcall, savedCalls, use_pagination>>

\* execute_saved_question(question_id)
SavedDirect ==
    /\ pc = "saved_exec"
    /\ \E a \in CardChoices(session_token, QueryAnswers) :
        /\ Cost(<<a>>) <= faultsLeft
        /\ faultsLeft' = faultsLeft - Cost(<<a>>)
        /\ ret' = IF a = "completed" THEN CardResult(total) ELSE NoneDf
        /\ cardReq' = IF a = "skip" THEN cardReq ELSE cardReq \cup {"card_query"}
    /\ savedCalls' = savedCalls + 1
    /\ pc' = "done"
    /\ UNCHANGED <<serverVars, sessions, clientVars, selectorVars, invoked, page_size,
                   max_workers, seqVars, all_dataframes, parVars, authResult, qcall,
                   meta, accessVars>>

-----------------------------------------------------------------------------
(* ofood_data._execute_query and ofood_data.get_question_data *)

\* the state of a call is dropped
ResetCall ==
    /\ entry' = "-"
    /\ reqmode' = "-"
    /\ mode' = "-"
    /\ estStatus' = "-"
    /\ estimate' = 0
    /\ invoked' = <<>>
    /\ page_size' = 0
    /\ max_workers' = 0
    /\ offset' = 0
    /\ all_dataframes' = <<>>
    /\ total_pages' = 0
    /\ successful_pages' = 0
    /\ task' = <<>>
    /\ reordered' = FALSE
    /\ seqlog' = <<>>
    /\ qcall' = NoCall
    /\ meta' = "-"
    /\ savedCalls' = 0
    /\ cardReq' = {}
    /\ countStatus' = "-"
    /\ use_pagination' = "-"

\* the data-access functions that build a client
AccessFunctions == {"_execute_query", "get_question_data"}

\* OFoodConfig.get_config: a configuration, or ValueError without a password
ConfigAnswers == {"config", "nopassword"}

\* the function is entered: get_config and MetabaseClient(config) run before
\* the try block; the client built is a fresh one
DaCall ==
    /\ pc = "idle"
    /\ session_token = NoToken /\ header = NoToken /\ database_id = cfgdb
    /\ \E fn \in AccessFunctions, c \in ConfigAnswers :
        /\ entry' = fn
        /\ IF c = "config"
           THEN /\ pc' = "da"
                /\ da' = [fn |-> fn, st |-> "auth", path |-> "-", logouts |-> 0]
                /\ UNCHANGED ret
           ELSE /\ pc' = "done"
                /\ da' = [fn |-> fn, st |-> "returned", path |-> "no_config",
                          logouts |-> 0]
                /\ ret' = Raised
    /\ authResult' = "-"
    /\ UNCHANGED <<serverVars, sessions, faultsLeft, clientVars, reqmode, mode,
                   estStatus, estimate, invoked, page_size, max_workers, seqVars,
                   all_dataframes, parVars, qcall, savedVars, use_pagination>>

\* "if client.authenticate():" inside the try block
DaAuthenticate ==
    /\ pc = "da" /\ da.st = "auth"
    /\ \E a \in AuthAnswers :
        /\ Cost(<<a>>) <= faultsLeft
        /\ faultsLeft' = faultsLeft - Cost(<<a>>)
        /\ session_token' = AuthEffect(a, session_token, header).session_token
        /\ header' = AuthEffect(a, session_token, header).header
        /\ sessions' = IF a = "ok" THEN sessions \cup {CallerToken} ELSE sessions
        /\ authResult' = a
        /\ IF a = "fail"
           THEN /\ da' = [da EXCEPT !.st = "finally", !.path = "auth_failed"]
                /\ ret' = NoneDf
                /\ pc' = "done"
           ELSE /\ da' = [da EXCEPT !.st = "call"]
                /\ UNCHANGED <<ret, pc>>
    /\ UNCHANGED <<serverVars, database_id, selectorVars, invoked, page_size,
                   max_workers, seqVars, all_dataframes, parVars, qcall, savedVars,
                   use_pagination>>

\* get_question_data(question_id, fast=False): execute_saved_question
DaSavedDirect ==
    /\ pc = "da" /\ da.st = "call" /\ da.fn = "get_question_data"
    /\ pc' = "saved_exec"
    /\ entry' = "saved_question"
    /\ da' = DaEnter
    /\ UNCHANGED <<serverVars, sessions, faultsLeft, clientVars, reqmode, mode,
                   estStatus, estimate, invoked, page_size, max_workers, seqVars,
                   all_dataframes, parVars, ret, authResult, qcall, savedVars,
                   use_pagination>>

\* the way the try block was left
AccessPath(st, df) ==
    IF st = "finally" THEN "auth_failed"
    ELSE IF df = Raised THEN "exception"
    ELSE IF df = NoneDf THEN "no_result"
    ELSE "result"

\* variant: logout is the last statement of the try block
RunsLogoutUnlessRaised(path) == path # "exception"

\* "finally: client.logout()"
RunsLogout(path) == TRUE

\* the except and finally blocks, and the return: an exception becomes None,
\* the client logs out and is dropped with the state of its call
DaFinally ==
    /\ pc = "done" /\ da.st \in {"run", "finally"}
    /\ LET path == AccessPath(da.st, ret) IN
       \E a \in (IF RunsLogout(path) THEN LogoutChoices(session_token) ELSE {"skip"}) :
        /\ Cost(<<a>>) <= faultsLeft
        /\ faultsLeft' = faultsLeft - Cost(<<a>>)
        /\ sessions' = IF a = "ok" THEN sessions \ {session_token} ELSE sessions
        /\ session_token' = IF RunsLogout(path)
                             THEN LogoutEffect(a, session_token, header).session_token
                             ELSE session_token
        /\ header' = IF RunsLogout(path)
                      THEN LogoutEffect(a, session_token, header).header
                      ELSE header
        /\ da' = [da EXCEPT !.st = "returned", !.path = path,
                            !.logouts = IF RunsLogout(path) THEN @ + 1 ELSE @]
        /\ ret' = IF ret = Raised THEN NoneDf ELSE ret
    /\ database_id' = cfgdb
    /\ authResult' = "-"
    /\ ResetCall
    /\ UNCHANGED <<serverVars, pc>>

-----------------------------------------------------------------------------
(* The caller *)

\* the call has returned; the caller is free to make the next call
Return ==
    /\ pc = "done"
    /\ da.st \notin {"run", "finally"}
    /\ pc' = "idle"
    /\ ret' = Pending
    /\ da' = NoAccess
    /\ ResetCall
    /\ UNCHANGED <<serverVars, sessions, faultsLeft, clientVars, authResult>>

Next ==
    \/ Authenticate
    \/ Logout
    \/ CallQuery
    \/ CallOptimized
    \/ CallWarehouse
    \/ CallSavedOptimized
    \/ SavedDirect
    \/ Estimate
    \/ Execute
    \/ Single
    \/ CallPagination
    \/ SeqStep
    \/ CallParallel
    \/ ParCount
    \/ TaskStart
    \/ TaskFinish
    \/ ParFinish
    \/ DaCall
    \/ DaAuthenticate
    \/ DaSavedDirect
    \/ DaFinally
    \/ Return

Spec == Init /\ [][Next]_vars

SpecLarge == InitLarge /\ [][Next]_vars

\* the pool runs every submitted task, every page request is answered, and
\* the calling thread goes on once the loop over the futures has ended
SpecFair ==
    /\ Init
    /\ [][Next]_vars
    /\ WF_vars(TaskStart)
    /\ WF_vars(TaskFinish)
    /\ WF_vars(ParFinish)

-----------------------------------------------------------------------------
(* Properties *)

\* the rows of dataset page k of the running pager
PageRange(k) == RowsOf(Min(k * page_size, total), Min((k + 1) * page_size, total))

\* the rows of the page tasks i .. Len(task) that returned a table, by page index
RECURSIVE SucceededRows(_)
SucceededRows(i) ==
    IF i > Len(task) THEN <<>>
    ELSE Concat2(IF task[i].res.kind = "df" THEN PageRange(i - 1) ELSE <<>>,
                 SucceededRows(i + 1))

ParallelDone == pc = "done" /\ Engine = "parallel" /\ task # <<>>
SequentialDone == pc = "done" /\ Engine = "pagination" /\ seqlog # <<>>

\* C1: in mode "auto" with a successful estimate n the one engine invoked is
\* single-shot with ceiling 100,000 for n <= 50,000, the sequential pager with
\* page size 25,000 for 50,000 < n <= 500,000, and the parallel pager with
\* page size 50,000 and 6 workers for n > 500,000.
C1_ThresholdSelection ==
    (reqmode = "auto" /\ estStatus = "ok" /\ pc \notin {"estimate", "dispatch"}) =>
        /\ estimate = total
        /\ Len(invoked) = 1
        /\ estimate <= 50000 =>
              invoked[1] = Invocation("execute_query", 0, 0, 100000)
        /\ (estimate > 50000 /\ estimate <= 500000) =>
              invoked[1] = Invocation("pagination", 25000, 0, 0)
        /\ estimate > 500000 =>
              invoked[1] = Invocation("parallel", 50000, 6, 0)

C1_Witness ==
    /\ reqmode = "auto" /\ estStatus = "ok" /\ estimate = 500001
    /\ ParallelDone /\ page_size = 50000 /\ max_workers = 6
    /\ ret.kind = "df"

\* C2: when no page of a parallel fetch fails, the table returned is the
\* concatenation of the pages in increasing page index, whatever the order
\* in which the page tasks completed.
C2_PageOrder ==
    (ParallelDone /\ \A i \in 1 .. Len(task) : task[i].res.kind = "df") =>
        /\ ret.kind = "df"
        /\ ret.rows = SucceededRows(1)
        /\ ret.rows = RowsOf(0, total)

C2_Witness ==
    /\ ParallelDone /\ reordered /\ Len(task) = 3
    /\ \A i \in 1 .. Len(task) : task[i].res.kind = "df"
    /\ ret = Df(RowsOf(0, total))

\* the pages of the running fetch that held rows and were not fetched
LostPages ==
    IF Engine = "parallel"
    THEN {i \in 1 .. Len(task) : task[i].st = "done" /\ task[i].res.kind # "df"}
    ELSE IF Engine = "pagination"
    THEN {i \in 1 .. Len(seqlog) :
             seqlog[i].sent /\ seqlog[i].kind = "None" /\ seqlog[i].offset < total}
    ELSE {}

\* what a fetch that loses no page returns for a dataset of m rows
LosslessOutcome(engine, m) ==
    IF m = 0 THEN (IF engine = "parallel" THEN Df(<<>>) ELSE NoneDf)
    ELSE Df(RowsOf(0, m))

\* C3: a paginated fetch that lost a page surfaces the loss: it returns no
\* table, or a table that no fetch without a lost page returns (the caller
\* can detect the loss).
C3_LossDetectable ==
    (pc = "done" /\ LostPages # {}) =>
        \/ ret.kind # "df"
        \/ \A m \in 0 .. total : ret # LosslessOutcome(Engine, m)

\* C4: in a parallel fetch where some pages fail and some succeed the table
\* returned is the concatenation, by page index, of the pages that
\* succeeded, and no error is returned.
C4_HolesSkipped ==
    (/\ ParallelDone
     /\ \E i \in 1 .. Len(task) : task[i].res.kind # "df"
     /\ \E i \in 1 .. Len(task) : task[i].res.kind = "df") =>
        /\ ret.kind = "df"
        /\ ret.rows = SucceededRows(1)

C4_Witness ==
    /\ ParallelDone /\ Len(task) = 3 /\ page_size = 2 /\ total = 5
    /\ task[1].res.kind = "df" /\ task[2].res.kind # "df" /\ task[3].res.kind = "df"
    /\ ret = Df(<< <<0, 2>>, <<4, 5>> >>)

\* C5: a parallel fetch whose count is total > 0 dispatches exactly
\* ceil(total / page_size) page tasks, one per page index and none twice,
\* task k querying LIMIT page_size OFFSET k * page_size, so that the ranges
\* partition 0 .. total-1 with only the last page short.
C5_PageTasks ==
    /\ (Engine = "parallel" /\ pc = "par_run") => (task # <<>> /\ total > 0)
    /\ (Engine = "parallel" /\ task # <<>>) =>
        /\ Len(task) = total_pages
        /\ total_pages * page_size >= total
        /\ (total_pages - 1) * page_size < total
        /\ \A i \in 1 .. Len(task) :
            /\ task[i].page_num = i - 1
            /\ task[i].sent <= 1
            /\ task[i].sent = 1 =>
                  (task[i].limit = page_size /\ task[i].offset = (i - 1) * page_size)
            /\ pc = "done" => task[i].st = "done"
    /\ TotalPages(600000, 50000) = 12

C5_Witness ==
    /\ ParallelDone /\ total = 500001 /\ page_size = 50000 /\ Len(task) = 11
    /\ \A i \in 1 .. Len(task) : task[i].sent = 1
    /\ task[11].res = Df(<< <<500000, 500001>> >>)

\* C6: in mode "auto", when the estimation query returns no result, the
\* parallel pager with page size 50,000 and 6 workers is the one engine
\* invoked.
C6_EstimateFailureGoesParallel ==
    (reqmode = "auto" /\ estStatus = "none" /\ pc \notin {"estimate", "dispatch"}) =>
        invoked = << Invocation("parallel", 50000, 6, 0) >>

C6_Witness ==
    /\ reqmode = "auto" /\ estStatus = "none" /\ session_token # NoToken
    /\ ParallelDone /\ ret.kind = "df"

\* C7: every page task that authenticated has logged out when it ends, on
\* every exit path, so that no worker session is left when the fetch returns.
C7_WorkerSessionsReleased ==
    Engine = "parallel" =>
        \A i \in 1 .. Len(task) :
            (task[i].st = "done" /\ task[i].authed) => task[i].loggedout

\* C8: every page task uses a session of its own, never the calling
\* client's and never another task's, and the slot of page k is written at
\* most once, with the result of task k.
C8_NoSharedWrites ==
    Engine = "parallel" =>
        \A i \in 1 .. Len(task) :
            /\ task[i].token # NoToken =>
                  /\ task[i].token # session_token
                  /\ task[i].token # CallerToken
                  /\ \A j \in 1 .. Len(task) : j # i => task[j].token # task[i].token
            /\ task[i].used \in {NoToken, task[i].token}
            /\ task[i].stored <= 1
            /\ all_dataframes[i] \in {NoneDf, task[i].res}
            /\ all_dataframes[i] # NoneDf => (task[i].st = "done" /\ task[i].stored = 1)

C8_Witness ==
    /\ Engine = "parallel" /\ pc = "par_run" /\ session_token = CallerToken
    /\ Cardinality(Running) = 2
    /\ \E i \in 1 .. Len(task) : task[i].stored = 1 /\ task[i].used # NoToken

\* C9: the sequential pager requests page k+1 only after page k returned
\* exactly page_size rows, and makes no request after a page that returned
\* fewer rows, no rows or no result.
C9_SequentialStops ==
    Engine = "pagination" =>
        /\ \A i \in 1 .. Len(seqlog) :
            /\ seqlog[i].offset = (i - 1) * page_size
            /\ seqlog[i].limit = page_size
            /\ i < Len(seqlog) => (seqlog[i].kind = "df" /\ seqlog[i].len = page_size)
        /\ pc = "seq" =>
            /\ offset = Len(seqlog) * page_size
            /\ \A i \in 1 .. Len(seqlog) : seqlog[i].len = page_size
        /\ (seqlog # <<>> /\ seqlog[Len(seqlog)].len < page_size) => pc = "done"

C9_Witness ==
    /\ SequentialDone /\ Len(seqlog) = 3 /\ page_size = 2
    /\ seqlog[3].kind = "df" /\ seqlog[3].len = 1
    /\ ret = Df(RowsOf(0, 5))

\* C10: when the sequential pager ends on an empty page, every earlier page
\* having succeeded, the call returns a table of the rows accumulated so
\* far, also when the first page is empty, and not the value of a failure.
C10_EmptyPageIsSuccess ==
    (/\ SequentialDone
     /\ seqlog[Len(seqlog)].kind = "df"
     /\ seqlog[Len(seqlog)].len = 0) =>
        /\ ret.kind = "df"
        /\ ret.rows = PdConcat(all_dataframes)

\* the sequential pager's page queries that reported no result
FailedQueries == {i \in 1 .. Len(seqlog) : seqlog[i].kind = "None"}

\* C11: when the query for page k of a sequential fetch fails, that page was
\* queried exactly once, no later page is queried, and the call returns the
\* concatenation of pages 0 .. k-1, or no result when k = 0, raising nothing.
C11_FailedPageEndsFetch ==
    (Engine = "pagination" /\ FailedQueries # {}) =>
        LET k == Len(seqlog) - 1 IN
        /\ FailedQueries = {k + 1}
        /\ Cardinality({i \in 1 .. Len(seqlog) :
                           seqlog[i].offset = k * page_size}) = 1
        /\ \A i \in 1 .. Len(seqlog) : seqlog[i].offset <= k * page_size
        /\ pc = "done"
        /\ ret = IF k = 0 THEN NoneDf ELSE Df(RowsOf(0, k * page_size))

C11_Witness ==
    /\ SequentialDone /\ Len(seqlog) = 2 /\ page_size = 2 /\ total = 5
    /\ seqlog[2].sent /\ seqlog[2].kind = "None"
    /\ ret = Df(RowsOf(0, 2))

\* C12: when no query of a sequential fetch over n rows with page size p
\* fails, the queries are at offsets 0, p, 2p, ..., there are n \div p + 1 of
\* them, the pages are kept in page order and, for n > 0, the table returned
\* is rows 0 .. n-1.
C12_SequentialComplete ==
    (SequentialDone /\ \A i \in 1 .. Len(seqlog) : seqlog[i].kind = "df") =>
        /\ Len(seqlog) = (total \div page_size) + 1
        /\ \A i \in 1 .. Len(seqlog) : seqlog[i].offset = (i - 1) * page_size
        /\ \A i \in 1 .. Len(all_dataframes) :
              all_dataframes[i] = Df(PageRange(i - 1))
        /\ total > 0 => ret = Df(RowsOf(0, total))

C12_Witness ==
    /\ SequentialDone /\ total = 4 /\ page_size = 2 /\ Len(seqlog) = 3
    /\ \A i \in 1 .. 3 : seqlog[i].kind = "df"
    /\ seqlog[3].len = 0
    /\ ret = Df(RowsOf(0, 4))

\* a direct execute_query call has returned
ExecuteQueryDone == pc = "done" /\ entry = "execute_query"

\* C13: execute_query returns a table only when the request was answered with
\* an HTTP success whose status field is "completed"; an HTTP success with any
\* other status, a transport failure and a request never sent give no result.
C13_CompletedOnly ==
    ExecuteQueryDone =>
        /\ ret.kind = "df" =>
              (qcall.sent /\ qcall.ans[2] \in {"completed", "uncapped"})
        /\ (qcall.sent /\ qcall.ans[2] \in {"failed", "http_error"}) => ret = NoneDf
        /\ ~qcall.sent => ret.kind # "df"

C13_Witness ==
    /\ ExecuteQueryDone
    /\ qcall.sent /\ qcall.ans[2] = "failed"
    /\ ret = NoneDf

\* C14: a table returned by execute_query has at most max_results rows
\* (100,000 when none is given), whatever rows the response holds.
C14_CeilingRespected ==
    (ExecuteQueryDone /\ ret.kind = "df") =>
        NumRows(ret.rows) <= (IF qcall.max_results = 0 THEN 100000
                              ELSE qcall.max_results)

\* C15: after an authenticate call that failed the client holds no session
\* token and its session presents none, whatever it held before the call.
C15_FailedAuthUnauthenticated ==
    authResult = "fail" => (session_token = NoToken /\ header = NoToken)

\* C16: the token the client holds and the token its session attaches to
\* requests are equal in every state; a request sent after a successful
\* authenticate presents the stored token; after logout both are absent.
C16_TokenPresented ==
    /\ header = session_token
    /\ authResult = "ok" => session_token = CallerToken
    /\ qcall.sent => (qcall.presented = session_token /\ qcall.presented # NoToken)
    /\ authResult = "logout" => (session_token = NoToken /\ header = NoToken)

C16_Witness ==
    /\ ExecuteQueryDone
    /\ qcall.sent /\ qcall.presented = CallerToken
    /\ ret.kind = "df"

\* C17: no public operation lets an exception escape: every call ends with a
\* table or with the "no result" value.
C17_NoExceptionEscapes ==
    pc = "done" => ret.kind # "raise"

\* C18: a parallel fetch never has more than max_workers page fetches in
\* flight, however many pages it has.
C18_PoolBound ==
    Engine = "parallel" =>
        Cardinality({i \in 1 .. Len(task) : task[i].st = "running"}) <= max_workers

C18_Witness ==
    /\ Engine = "parallel" /\ max_workers = 6 /\ total_pages = 11
    /\ Cardinality({i \in 1 .. Len(task) : task[i].st = "running"}) = 6
    /\ \E i \in 1 .. Len(task) : task[i].st = "queued"

\* C19: once the page tasks are submitted every one of them is kept and runs
\* to its end, whatever happens to the other pages; the result is assembled
\* only when all have ended; and the fetch returns if every request is
\* answered.
C19_TasksRunToCompletion ==
    /\ [](ParallelDone =>
            /\ Len(task) = total_pages
            /\ \A i \in 1 .. Len(task) : task[i].st = "done")
    /\ [][(pc = "par_run" /\ pc' \in {"par_run", "done"}) =>
            /\ Len(task') = Len(task)
            /\ \A i \in 1 .. Len(task) :
                /\ task[i].st = "running" => task'[i].st \in {"running", "done"}
                /\ task[i].st = "done" => task'[i] = task[i]]_vars
    /\ (pc = "par_run") ~> (pc = "done")

C19_Witness ==
    /\ ParallelDone /\ Len(task) = 3
    /\ task[1].sent = 1 /\ task[1].res.kind = "None"
    /\ task[2].res.kind = "df" /\ task[3].res.kind = "df"
    /\ ret.kind = "df"

Answered ==
    /\ session_token # NoToken
    /\ reqmode = "auto" => estStatus = "ok"
    /\ Engine = "execute_query" => (qcall.sent /\ qcall.ans[2] = "completed")
    /\ Engine = "pagination" => \A i \in 1 .. Len(seqlog) : seqlog[i].kind = "df"
    /\ Engine = "parallel" =>
          /\ countStatus = "ok"
          /\ \A i \in 1 .. Len(task) : task[i].res.kind = "df"

\* what execute_query_optimized(sql, m) returns over a dataset of tot rows
\* when every request is answered
SelectorResult(m, tot) ==
    LET chosen == IF m # "auto" THEN m
                  ELSE IF tot <= 50000 THEN "single"
                  ELSE IF tot <= 500000 THEN "pagination"
                  ELSE "parallel"
    IN  IF chosen = "single" THEN Df(RowsOf(0, Min(tot, 100000)))
        ELSE IF chosen = "pagination" /\ tot = 0 THEN NoneDf
        ELSE Df(RowsOf(0, tot))

\* C21: for a stored native query, execute_saved_question_optimized(id, m)
\* returns what execute_query_optimized(sql, m) returns over the same
\* dataset: with every request answered, both return SelectorResult(m, n),
\* hence the same number of rows.
C21_SavedMatchesSelector ==
    (/\ pc = "done"
     /\ \/ entry = "optimized"
        \/ entry = "saved_optimized" /\ meta = "native"
     /\ Answered) =>
        ret = SelectorResult(reqmode, total)

C21_Witness ==
    /\ pc = "done" /\ entry = "saved_optimized" /\ meta = "native"
    /\ Answered
    /\ reqmode = "single" /\ total = 500000
    /\ NumRows(ret.rows) = 100000

\* C22: after a logout that sent its request, answered or failed, the client
\* holds no token and its session attaches none; a logout without a token
\* sends nothing and changes neither the client nor the server's sessions.
C22_LogoutBestEffort ==
    /\ [](authResult = "logout" => (session_token = NoToken /\ header = NoToken))
    /\ [][authResult' = "logout_noop" =>
            /\ session_token = NoToken
            /\ UNCHANGED <<session_token, header, database_id, sessions, faultsLeft,
                           pc, ret>>]_vars

C22_Witness ==
    /\ authResult = "logout"
    /\ CallerToken \in sessions
    /\ session_token = NoToken /\ header = NoToken

\* C23: without a configured id, execute_query looks the database up by name;
\* when the name is not listed or the listing request fails it returns no
\* result and posts no query; an id once held is kept as long as the client
\* lives, the listing is not requested again and the query is posted.
C23_LazyDatabaseLookup ==
    /\ [](ExecuteQueryDone =>
            /\ qcall.ans[1] \in {"notfound", "reqerr"} =>
                  (ret = NoneDf /\ ~qcall.sent /\ database_id = "None")
            /\ qcall.ans[1] = "found" => (database_id = "db" /\ qcall.sent))
    /\ [][(database_id # "None" /\ da'.st # "returned") =>
            /\ database_id' = database_id
            /\ (pc = "idle" /\ entry' = "execute_query" /\ session_token # NoToken) =>
                  (qcall'.ans[1] = "skip" /\ qcall'.sent)]_vars

C23_Witness ==
    /\ ExecuteQueryDone /\ session_token # NoToken
    /\ qcall.ans[1] = "notfound"
    /\ ret = NoneDf /\ ~qcall.sent /\ database_id = "None"

\* C24: a client without a session token sends no query, no saved-question
\* metadata request and no saved-question execution: the three methods
\* return no result without a request.
C24_NoTokenNoRequest ==
    session_token = NoToken =>
        /\ ExecuteQueryDone =>
              (ret = NoneDf /\ ~qcall.sent /\ qcall.ans = <<"skip", "skip">>)
        /\ entry = "saved_optimized" =>
              /\ meta = "None"
              /\ cardReq = {}
              /\ pc = "done" => (savedCalls = 1 /\ ret = NoneDf)

C24_Witness ==
    /\ session_token = NoToken /\ CallerToken \in sessions
    /\ entry = "saved_optimized" /\ pc = "done"
    /\ savedCalls = 1 /\ cardReq = {} /\ ret = NoneDf

\* C25: when the count query of the parallel pager gives no result the pager
\* returns no result and submits no page task; so in mode "auto", when the
\* estimate and then that count both fail, execute_query_optimized returns
\* no result and fetches no page.
C25_CountFailureNoFetch ==
    /\ (Engine = "parallel" /\ countStatus = "none") =>
          (pc = "done" /\ ret = NoneDf /\ task = <<>> /\ total_pages = 0)
    /\ (reqmode = "auto" /\ estStatus = "none" /\ countStatus = "none") =>
          /\ invoked = <<[fn |-> "parallel", page_size |-> 50000, max_workers |-> 6,
                          max_results |-> 0]>>
          /\ ret = NoneDf
          /\ task = <<>>

C25_Witness ==
    /\ pc = "done" /\ session_token # NoToken
    /\ reqmode = "auto" /\ estStatus = "none" /\ countStatus = "none"
    /\ ret = NoneDf /\ task = <<>>

\* C26: with a count of 0 the parallel pager returns a table without rows,
\* submits no page task and opens no worker session; with a positive count
\* and every page task failed or returning zero rows it returns no result.
C26_EmptyAndAllFailed ==
    /\ [](Engine = "parallel" /\ countStatus = "ok" /\ total = 0 =>
            (pc = "done" /\ ret = Df(<<>>) /\ task = <<>>))
    /\ [](ParallelDone /\ (\A i \in 1 .. Len(task) : task[i].res.kind # "df") =>
            ret = NoneDf)
    /\ [][(pc = "par_count" /\ total = 0) => UNCHANGED sessions]_vars

C26_Witness ==
    /\ ParallelDone /\ Len(task) = 2
    /\ task[1].sent = 1 /\ task[1].empty
    /\ task[2].sent = 1 /\ task[2].res = NoneDf /\ ~task[2].empty
    /\ ret = NoneDf

\* C27: a parallel fetch leaves the calling client's session as it found it:
\* no step of the fetch changes the caller's token or header, a worker's
\* logout closes one session that is not the caller's, and the caller's
\* session stays open on the server.
C27_CallerSessionUntouched ==
    [][(Engine = "parallel" /\ pc \in {"par_count", "par_run"}) =>
        /\ session_token' = session_token
        /\ header' = header
        /\ CallerToken \in sessions => CallerToken \in sessions'
        /\ Cardinality(sessions \ sessions') <= 1]_vars

C27_Witness ==
    /\ ParallelDone /\ ret.kind = "df"
    /\ session_token = CallerToken /\ header = CallerToken
    /\ CallerToken \in sessions
    /\ \E i \in 1 .. Len(task) :
          task[i].authed /\ task[i].loggedout /\ task[i].token \notin sessions

\* C29: whenever authenticate returned True the client holds a session token
\* and its session attaches it, also when the response carried no id.
C29_TrueMeansToken ==
    authResult \in {"ok", "noid"} =>
        (session_token # NoToken /\ header # NoToken)

\* C30: for every documented optimization_mode and either value of
\* use_pagination, execute_query_from_warehouse runs the engine that
\* execute_query_optimized runs for that mode: single-shot for "single", the
\* sequential pager for "pagination", the parallel pager for "parallel" and
\* "fast", the threshold selector for "auto".
C30_WarehouseMatchesSelector ==
    (entry = "warehouse" /\ invoked # <<>>) =>
        /\ reqmode = "single" =>
              invoked[1] = [fn |-> "execute_query", page_size |-> 0,
                            max_workers |-> 0, max_results |-> 100000]
        /\ reqmode = "pagination" =>
              invoked[1] = [fn |-> "pagination", page_size |-> 25000,
                            max_workers |-> 0, max_results |-> 0]
        /\ reqmode \in {"parallel", "fast"} =>
              invoked[1] = [fn |-> "parallel", page_size |-> 50000,
                            max_workers |-> 6, max_results |-> 0]
        /\ reqmode = "auto" => estStatus \in {"ok", "none"}

\* C28: a data-access function that built a client calls logout on it exactly
\* once, after the try block and before it returns, whether authentication
\* failed, the call returned a table or no result, or an exception was
\* raised; when it has returned the client holds no session token.
C28_AccessLogsOut ==
    /\ da.st \in {"auth", "call", "run", "finally"} => da.logouts = 0
    /\ (da.st = "returned" /\ da.path # "no_config") =>
          /\ da.path \in {"auth_failed", "result", "no_result", "exception"}
          /\ da.logouts = 1
          /\ session_token = NoToken /\ header = NoToken
          /\ ret.kind \in {"df", "None"}

C28_Witness ==
    /\ da.st = "returned" /\ da.path = "exception"
    /\ da.logouts = 1 /\ session_token = NoToken
    /\ CallerToken \notin sessions
    /\ ret = NoneDf

====
